---- MODULE Spec2Model ----
(***************************************************************************)
(* MFO Shield Ukraine: the loan analyzer pages and the Gemini service.     *)
(*                                                                         *)
(* The repository holds four analyzer pages:                               *)
(*   "v1"  AnalyzerPage      (src/unnamed/part_002, lines 23-165)          *)
(*   "v2"  LoanAnalyzerPage  (src/unnamed/part_002, lines 357-496)         *)
(*   "v3"  AnalyzerPage      (src/unnamed/part_002, lines 638-924)         *)
(*   "ai"  AnalyzerPage      (src/App.tsx, lines 52-306)                   *)
(* One of them is mounted; `variant` says which.                           *)
(*                                                                         *)
(* JavaScript strings that hold numbers are sequences of one-character     *)
(* strings, so that parseFloat, parseInt, toFixed and template literals    *)
(* are computed character by character.  JavaScript numbers are exact      *)
(* rationals plus NaN and the infinities; the inputs of the model have at  *)
(* most three decimals and never sit half-way between two hundredths, so   *)
(* the binary rounding of a double never decides a comparison or a digit.  *)
(* Exponents and the literal "Infinity" are not in the input alphabet.     *)
(* Cyrillic literals of the source are transliterated to ASCII.            *)
(***************************************************************************)
EXTENDS Integers, Sequences, FiniteSets, TLC

VARIABLES
    session,          \* which bounded set of inputs the user of this session types from
    variant,          \* which page component is mounted
    loanDetails,      \* the form fields (strings)
    analysisResult,   \* analysisResult / result state: Null or a verdict
    isAnalyzing,      \* isAnalyzing (v3), isLoading (v2, ai)
    analysisError,    \* analysisError (v3), error (ai)
    timer,            \* the pending setTimeout callback of handleAnalyze
    complaintDraft,   \* complaint (v1), complaintDraft (v2, v3)
    isGenerating,     \* isLoading (v1), isGenerating (v2), isGeneratingComplaint (v3)
    complaintError,   \* error (v1), complaintError (v3)
    draftReq,         \* the generateComplaintDraft call in flight
    agreementText,    \* ai: the agreement text field
    aiReq,            \* ai: the analyzeLoanAgreement call in flight
    selectedFile,     \* ai: the file chosen for extraction
    isExtracting,     \* ai: extraction in progress
    extractionError,  \* ai: extraction error message
    extractReq,       \* ai: the extractLoanDetailsFromDocument call in flight
    submitted,        \* history: the fields the current verdict (or pending one) was computed from
    lastCall,         \* history: the analyzeLoanAgreement call behind the result shown
    calcPrincipal,    \* the fields of the loan calculator of the third page
    calcDailyRate,
    calcTermDays,
    calcResult,       \* { totalPayment, dailyRatePercent } or null
    calcError,
    calcSubmitted,    \* history: the calculator fields calcResult was computed from
    analysisCache,    \* services: the module's Map from cache key to stored result
    cacheCall,        \* history: the last analyzeLoanAgreementWithCache call and its outcome
    theme,            \* App: the theme state
    storedTheme,      \* localStorage item 'theme', None when absent
    darkClass,        \* document.documentElement.classList.contains('dark')
    themeEffectPending, \* the effect of the last change of theme has not run yet
    prefersDark       \* matchMedia('(prefers-color-scheme: dark)').matches

vars == << session, variant, loanDetails, analysisResult, isAnalyzing, analysisError, timer,
           complaintDraft, isGenerating, complaintError, draftReq, agreementText,
           aiReq, selectedFile, isExtracting, extractionError, extractReq,
           submitted, lastCall,
           calcPrincipal, calcDailyRate, calcTermDays, calcResult, calcError,
           calcSubmitted, analysisCache, cacheCall,
           theme, storedTheme, darkClass, themeEffectPending, prefersDark >>

calcVars == << calcPrincipal, calcDailyRate, calcTermDays, calcResult, calcError,
               calcSubmitted >>

cacheVars == << analysisCache, cacheCall >>

themeVars == << theme, storedTheme, darkClass, themeEffectPending, prefersDark >>

Null == "null"

-----------------------------------------------------------------------------
(* JavaScript numbers *)

RECURSIVE Gcd(_, _)
Gcd(a, b) == IF b = 0 THEN a ELSE Gcd(b, a % b)

Abs(n) == IF n < 0 THEN -n ELSE n

NaN == [k |-> "nan", n |-> 0, d |-> 1]
Infinity(s) == [k |-> "inf", n |-> s, d |-> 1]

\* the rational n/d (d > 0), in lowest terms
Fin(n, d) ==
    LET g == Gcd(Abs(n), d)
    IN  [k |-> "fin", n |-> n \div g, d |-> d \div g]

Num(i) == Fin(i, 1)

isNaN(x) == x.k = "nan"

\* x * y, x + y, x - y for finite or NaN operands
Mul(x, y) == IF isNaN(x) \/ isNaN(y) THEN NaN ELSE Fin(x.n * y.n, x.d * y.d)
Add(x, y) == IF isNaN(x) \/ isNaN(y) THEN NaN ELSE Fin(x.n * y.d + y.n * x.d, x.d * y.d)
Sub(x, y) == IF isNaN(x) \/ isNaN(y) THEN NaN ELSE Fin(x.n * y.d - y.n * x.d, x.d * y.d)

\* x / y for finite or NaN operands: a zero divisor gives an infinity, 0/0 gives NaN
Div(x, y) ==
    IF isNaN(x) \/ isNaN(y) THEN NaN
    ELSE IF y.n = 0 THEN (IF x.n = 0 THEN NaN ELSE Infinity(IF x.n > 0 THEN 1 ELSE -1))
    ELSE IF y.n > 0 THEN Fin(x.n * y.d, x.d * y.n)
    ELSE Fin(-(x.n * y.d), x.d * (-y.n))

\* x > y: false as soon as one side is NaN
Gt(x, y) ==
    IF isNaN(x) \/ isNaN(y) THEN FALSE
    ELSE IF x.k = "inf" THEN x.n > 0 /\ ~(y.k = "inf" /\ y.n > 0)
    ELSE IF y.k = "inf" THEN y.n < 0
    ELSE x.n * y.d > y.n * x.d

Lt(x, y) == Gt(y, x)
Le(x, y) == ~isNaN(x) /\ ~isNaN(y) /\ ~Gt(x, y)

\* Number.isInteger
IsInteger(x) == x.k = "fin" /\ x.d = 1

-----------------------------------------------------------------------------
(* JavaScript strings: sequences of characters *)

Digits == {"0", "1", "2", "3", "4", "5", "6", "7", "8", "9"}
Whitespace == {" "}

DigitVal(c) == CHOOSE i \in 0..9 : ToString(i) = c
DigitChar(i) == ToString(i)

RECURSIVE Pow10(_)
Pow10(k) == IF k = 0 THEN 1 ELSE 10 * Pow10(k - 1)

\* the first index from i on that holds no character of set S (Len(s)+1 if none)
RECURSIVE SkipWhile(_, _, _)
SkipWhile(s, i, S) ==
    IF i <= Len(s) /\ s[i] \in S THEN SkipWhile(s, i + 1, S) ELSE i

\* the value of the digit run s[i..j-1]
RECURSIVE DigitsValue(_, _, _)
DigitsValue(s, i, j) ==
    IF i >= j THEN 0 ELSE DigitsValue(s, i, j - 1) * 10 + DigitVal(s[j - 1])

\* the decimal digits of a natural number
RECURSIVE NatToString(_)
NatToString(n) ==
    IF n < 10 THEN << DigitChar(n) >>
    ELSE NatToString(n \div 10) \o << DigitChar(n % 10) >>

\* parseFloat: leading whitespace, a sign, digits, a fraction; NaN when no digit
parseFloat(s) ==
    LET i0   == SkipWhile(s, 1, Whitespace)
        sgn  == IF i0 <= Len(s) /\ s[i0] = "-" THEN -1 ELSE 1
        i1   == IF i0 <= Len(s) /\ s[i0] \in {"+", "-"} THEN i0 + 1 ELSE i0
        i2   == SkipWhile(s, i1, Digits)
        dot  == i2 <= Len(s) /\ s[i2] = "."
        i3   == IF dot THEN SkipWhile(s, i2 + 1, Digits) ELSE i2
        nInt == i2 - i1
        nFrc == IF dot THEN i3 - (i2 + 1) ELSE 0
    IN  IF nInt + nFrc = 0 THEN NaN
        ELSE Fin(sgn * (DigitsValue(s, i1, i2) * Pow10(nFrc)
                        + (IF dot THEN DigitsValue(s, i2 + 1, i3) ELSE 0)),
                 Pow10(nFrc))

\* parseInt(s, 10): leading whitespace, a sign, digits; stops at the first other character
parseInt(s) ==
    LET i0  == SkipWhile(s, 1, Whitespace)
        sgn == IF i0 <= Len(s) /\ s[i0] = "-" THEN -1 ELSE 1
        i1  == IF i0 <= Len(s) /\ s[i0] \in {"+", "-"} THEN i0 + 1 ELSE i0
        i2  == SkipWhile(s, i1, Digits)
    IN  IF i2 = i1 THEN NaN ELSE Num(sgn * DigitsValue(s, i1, i2))

\* x.toFixed(2): the nearest hundredth, the larger one on a tie of the magnitude
toFixed2(x) ==
    IF isNaN(x) THEN << "N", "a", "N" >>
    ELSE IF x.k = "inf"
    THEN (IF x.n < 0 THEN << "-" >> ELSE << >>) \o << "I", "n", "f", "i", "n", "i", "t", "y" >>
    ELSE LET m == Abs(x.n)
             q == (2 * m * 100 + x.d) \div (2 * x.d)
         IN  (IF x.n < 0 THEN << "-" >> ELSE << >>)
             \o NatToString(q \div 100)
             \o << ".", DigitChar((q % 100) \div 10), DigitChar(q % 10) >>

\* the fraction digits of m/d (0 <= m < d, d = 2^a * 5^b), without trailing zeros
RECURSIVE FractionDigits(_, _)
FractionDigits(m, d) ==
    IF m = 0 THEN << >>
    ELSE << DigitChar((m * 10) \div d) >> \o FractionDigits((m * 10) % d, d)

\* String(x), as a template literal `${x}` does it
NumberToString(x) ==
    IF isNaN(x) THEN << "N", "a", "N" >>
    ELSE IF x.k = "inf"
    THEN (IF x.n < 0 THEN << "-" >> ELSE << >>) \o << "I", "n", "f", "i", "n", "i", "t", "y" >>
    ELSE LET m == Abs(x.n)
             f == FractionDigits(m % x.d, x.d)
         IN  (IF x.n < 0 THEN << "-" >> ELSE << >>)
             \o NatToString(m \div x.d)
             \o (IF f = << >> THEN << >> ELSE << "." >> \o f)

\* s.startsWith(p)
StartsWith(s, p) == Len(p) <= Len(s) /\ SubSeq(s, 1, Len(p)) = p

-----------------------------------------------------------------------------
(* The form fields *)

Variants == {"v1", "v2", "v3", "ai"}
Fields == {"principal", "dailyRate", "termDays", "totalPayment"}

\* HTML: a valid floating-point number (without exponent), the only non-empty
\* value an <input type="number"> holds
ValidFloatString(s) ==
    LET i1  == IF 1 <= Len(s) /\ s[1] = "-" THEN 2 ELSE 1
        i2  == SkipWhile(s, i1, Digits)
        dot == i2 <= Len(s) /\ s[i2] = "."
        i3  == IF dot THEN SkipWhile(s, i2 + 1, Digits) ELSE i2
    IN  /\ i3 = Len(s) + 1
        /\ (i2 > i1 \/ dot)
        /\ (dot => i3 > i2 + 1)

\* useState initial values of the form fields
InitialLoanDetails(v) ==
    CASE v = "v1" -> [principal    |-> << "5", "0", "0", "0" >>,
                      dailyRate    |-> << "0", ".", "0", "1", "9" >>,
                      termDays     |-> << "3", "0" >>,
                      totalPayment |-> << "7", "8", "5", "0" >>]
      [] v = "v3" -> [principal |-> << >>, dailyRate |-> << >>, termDays |-> << >>,
                      totalPayment |-> << >>]
      [] OTHER    -> [principal    |-> << "1", "0", "0", "0", "0" >>,
                      dailyRate    |-> << "1", ".", "5" >>,
                      termDays     |-> << "3", "0" >>,
                      totalPayment |-> << "1", "4", "5", "0", "0" >>]

\* what the user can type into a field of each page (e.target.value): a valid
\* number on the field's step grid, or the empty string
TypedValues(v, f) ==
    CASE v = "v1" /\ f = "principal"    -> { << "5", "0", "0", "0" >>, << "-", "5" >> }
      [] v = "v1" /\ f = "dailyRate"    -> { << "0", ".", "0", "1", "9" >>, << "0", ".", "0", "1" >> }
      [] v = "v1" /\ f = "termDays"     -> { << "3", "0" >> }
      [] v = "v1" /\ f = "totalPayment" -> { << "7", "8", "5", "0" >>, << "1", "2", "0", "0", "0" >> }
      [] v = "v2" /\ f = "principal"    -> { << "1", "0", "0", "0", "0" >>, << >> }
      [] v = "v2" /\ f = "dailyRate"    -> { << "1", ".", "5" >>, << "1" >> }
      [] v = "v2" /\ f = "termDays"     -> { << "3", "0" >> }
      [] v = "v2" /\ f = "totalPayment" -> { << "1", "4", "5", "0", "0" >>, << "2", "5", "0", "0", "0" >> }
      [] v = "v3" /\ f = "principal"    -> { << "6" >>, << "0" >>, << >> }
      [] v = "v3" /\ f = "dailyRate"    -> { << "1" >>, << "1", ".", "0", "1" >>, << "2" >>, << "0" >> }
      [] v = "v3" /\ f = "termDays"     -> { << "1", "0", "0" >>, << "1", "0", "9" >> }
      [] v = "v3" /\ f = "totalPayment" -> { }
      [] v = "ai" /\ f = "principal"    -> { << "1", "0", "0", "0", "0" >>, << "0" >> }
      [] v = "ai" /\ f = "dailyRate"    -> { << "1", ".", "5" >>, << "5" >>, << "6" >> }
      [] v = "ai" /\ f = "termDays"     -> { << "3", "0" >> }
      [] v = "ai" /\ f = "totalPayment" -> { << "1", "4", "5", "0", "0" >>, << "0" >> }

\* the two worked examples of the legislation notes, for the pages that take
\* the rate in percent: 3000 at 2% for 14 days repaying 8000, and 10000 at
\* 1.5% for 30 days repaying 14500
ScenarioValues(s, f) ==
    CASE s = "scenarioC" /\ f = "principal"    -> { << "3", "0", "0", "0" >> }
      [] s = "scenarioC" /\ f = "dailyRate"    -> { << "2" >> }
      [] s = "scenarioC" /\ f = "termDays"     -> { << "1", "4" >> }
      [] s = "scenarioC" /\ f = "totalPayment" -> { << "8", "0", "0", "0" >> }
      [] s = "scenarioA" /\ f = "principal"    -> { << "1", "0", "0", "0", "0" >> }
      [] s = "scenarioA" /\ f = "dailyRate"    -> { << "1", ".", "5" >> }
      [] s = "scenarioA" /\ f = "termDays"     -> { << "3", "0" >> }
      [] s = "scenarioA" /\ f = "totalPayment" -> { << "1", "4", "5", "0", "0" >> }
      [] s = "calculator" /\ f = "principal"   -> { << "3", "0", "0", "0" >> }
      [] s = "calculator" /\ f = "dailyRate"   -> { << "1", ".", "9" >>, << "2" >> }
      [] s = "calculator" /\ f = "termDays"    -> { << "6", "0" >> }
      [] OTHER                                 -> { }

\* a session types from the sets of TypedValues, enters one worked example,
\* or uses the loan calculator and the analyzer of the third page on one loan
Sessions == {"limits", "scenarioA", "scenarioC", "calculator", "cache", "theme"}

\* e.target.value of a change event on a field of the loan calculator
CalcInputValues(f) ==
    IF session # "calculator" THEN { }
    ELSE ScenarioValues(session, f) \cup (IF f = "principal" THEN { << "0" >> } ELSE { })

\* the browser fires a form's submit event only when every required number
\* input holds a value (a string that is no valid number reads as empty);
\* the page "v2" has no form, "v3" has no totalPayment input
FormSubmittable(v, ld) ==
    \/ v = "v2"
    \/ \A f \in Fields : (v = "v3" /\ f = "totalPayment") \/ ValidFloatString(ld[f])

-----------------------------------------------------------------------------
(* Verdicts of the local analyzers *)

PERCENT == << "%" >>
HRN == << " ", "h", "r", "n" >>
UAH == << " ", "U", "A", "H" >>
NOTE_2X == << " ", "(", "2", "x", " ", "v", "i", "d", " ", "t", "i", "l", "a", " ",
              "k", "r", "e", "d", "y", "t", "u", ")" >>

\* violations.length === 0
IsLawfulMutant(violations) == Len(violations) <= 1
IsLawful(violations) == Len(violations) = 0

(* ---- "v3": AnalyzerPage.handleAnalyze, MAX_DAILY_RATE = 1.0 ---- *)

MAX_DAILY_RATE == Num(1)
MAX_TOTAL_MULTIPLIER == Num(2)

TYPE_DAILY_V3 == "Perevyshchennia dennoi stavky"
TYPE_TOTAL_V3 == "Perevyshchennia zahalnoi sumy vyplat"
ACTION_LAWFUL_V3 == "Dohovir vidpovidaie osnovnym vymoham zakonodavstva shchodo vidsotkovykh stavok ta maksymalnoi pereplaty."
ACTION_UNLAWFUL_V3 == "Rekomenduietsia oskarzhyty umovy dohovoru. Vy mozhete zheneruvaty chernetku skarhy do NBU na osnovi tsoho analizu."
ERR_ANALYSIS_V3 == "Bud laska, vvedit diisni dodatni chysla dlia analizu."

\* the validation of handleAnalyze: TRUE when the input is rejected
RejectsV3(principal, dailyRatePercent, term) ==
    \/ isNaN(principal) \/ isNaN(dailyRatePercent) \/ isNaN(term)
    \/ Le(principal, Num(0)) \/ Lt(dailyRatePercent, Num(0)) \/ Le(term, Num(0))

\* const totalPayment = principal * (1 + dailyRateDecimal * term)
DerivedTotalPaymentMutant(principal, dailyRatePercent, term) ==
    Mul(principal, Add(Num(1), Mul(dailyRatePercent, term)))
DerivedTotalPayment(principal, dailyRatePercent, term) ==
    LET dailyRateDecimal == Div(dailyRatePercent, Num(100))
    IN  Mul(principal, Add(Num(1), Mul(dailyRateDecimal, term)))

\* Check 1: if (dailyRatePercent > MAX_DAILY_RATE)
DailyRateExceedsV3Mutant(dailyRatePercent) == ~Lt(dailyRatePercent, MAX_DAILY_RATE)
DailyRateExceedsV3(dailyRatePercent) == Gt(dailyRatePercent, MAX_DAILY_RATE)

\* Check 2: if (totalPayment > principal * MAX_TOTAL_MULTIPLIER)
TotalExceedsV3Mutant(totalPayment, principal) ==
    ~Lt(totalPayment, Mul(principal, MAX_TOTAL_MULTIPLIER))
TotalExceedsV3(totalPayment, principal) ==
    Gt(totalPayment, Mul(principal, MAX_TOTAL_MULTIPLIER))

\* the record pushed by check 1
DailyViolationV3Mutant(dailyRatePercent) ==
    [type        |-> TYPE_DAILY_V3,
     legal_limit |-> toFixed2(MAX_DAILY_RATE) \o PERCENT,
     actual_rate |-> toFixed2(dailyRatePercent) \o PERCENT,
     excess      |-> toFixed2(dailyRatePercent) \o PERCENT]
DailyViolationV3(dailyRatePercent) ==
    [type        |-> TYPE_DAILY_V3,
     legal_limit |-> toFixed2(MAX_DAILY_RATE) \o PERCENT,
     actual_rate |-> toFixed2(dailyRatePercent) \o PERCENT,
     excess      |-> toFixed2(Sub(dailyRatePercent, MAX_DAILY_RATE)) \o PERCENT]

\* the record pushed by check 2
TotalViolationV3Mutant(totalPayment, principal) ==
    [type          |-> TYPE_TOTAL_V3,
     legal_limit   |-> toFixed2(Mul(principal, MAX_TOTAL_MULTIPLIER)) \o HRN \o NOTE_2X,
     actual_rate   |-> toFixed2(totalPayment) \o HRN,
     excess        |-> << >>,
     excess_amount |-> toFixed2(Sub(totalPayment, principal)) \o HRN]
TotalViolationV3(totalPayment, principal) ==
    [type          |-> TYPE_TOTAL_V3,
     legal_limit   |-> toFixed2(Mul(principal, MAX_TOTAL_MULTIPLIER)) \o HRN \o NOTE_2X,
     actual_rate   |-> toFixed2(totalPayment) \o HRN,
     excess        |-> << >>,
     excess_amount |-> toFixed2(Sub(totalPayment, Mul(principal, MAX_TOTAL_MULTIPLIER))) \o HRN]

\* const violations = []; check 1; check 2
ViolationsV3Mutant(principal, dailyRatePercent, term) ==
    LET totalPayment == DerivedTotalPayment(principal, dailyRatePercent, term)
    IN  IF DailyRateExceedsV3(dailyRatePercent)
        THEN << DailyViolationV3(dailyRatePercent) >>
        ELSE IF TotalExceedsV3(totalPayment, principal)
        THEN << TotalViolationV3(totalPayment, principal) >>
        ELSE << >>
ViolationsV3(principal, dailyRatePercent, term) ==
    LET totalPayment == DerivedTotalPayment(principal, dailyRatePercent, term)
    IN  (IF DailyRateExceedsV3(dailyRatePercent)
         THEN << DailyViolationV3(dailyRatePercent) >> ELSE << >>)
        \o
        (IF TotalExceedsV3(totalPayment, principal)
         THEN << TotalViolationV3(totalPayment, principal) >> ELSE << >>)

\* the object handed to setAnalysisResult by the timeout callback
VerdictV3Mutant(violations) ==
    [is_lawful          |-> IsLawful(violations),
     violations         |-> violations,
     recommended_action |-> IF IsLawful(violations) THEN ACTION_LAWFUL_V3
                            ELSE IF Len(violations) = 1 THEN ACTION_UNLAWFUL_V3
                            ELSE ACTION_LAWFUL_V3]
VerdictV3(violations) ==
    [is_lawful          |-> IsLawful(violations),
     violations         |-> violations,
     recommended_action |-> IF IsLawful(violations) THEN ACTION_LAWFUL_V3
                            ELSE ACTION_UNLAWFUL_V3]

(* ---- "v1": AnalyzerPage.handleAnalyze, the rate given as a fraction ---- *)

ONE_HUNDREDTH == Fin(1, 100)

TYPE_DAILY_V1 == "Perevyshchennia maksymalnoi dennoi stavky"
TYPE_TOTAL_V1 == "Perevyshchennia maksymalnoi sumy do povernennia"
ACTION_UNLAWFUL_V1 == "Rekomendovano podaty skarhu do NBU dlia perevirky zakonnosti umov."
ACTION_LAWFUL_V1 == "Na osnovi vvedenykh danykh, umovy kredytu vyhliadaiut zakonnymy."
ERR_COMPLAINT_V1 == "Ne vdalosia zheneruvaty skarhu. Sprobuite piznishe."

ViolationsV1(ld) ==
    LET dailyRateNum    == parseFloat(ld.dailyRate)
        principalNum    == parseFloat(ld.principal)
        totalPaymentNum == parseFloat(ld.totalPayment)
    IN  (IF Gt(dailyRateNum, ONE_HUNDREDTH)
         THEN << [type        |-> TYPE_DAILY_V1,
                  legal_limit |-> << "1", "%" >>,
                  actual_rate |-> toFixed2(Mul(dailyRateNum, Num(100))) \o PERCENT,
                  excess      |-> toFixed2(Mul(Sub(dailyRateNum, ONE_HUNDREDTH), Num(100)))
                                  \o PERCENT] >>
         ELSE << >>)
        \o
        (IF Gt(totalPaymentNum, Mul(principalNum, Num(2)))
         THEN << [type        |-> TYPE_TOTAL_V1,
                  legal_limit |-> NumberToString(Mul(principalNum, Num(2))) \o UAH,
                  actual_rate |-> NumberToString(totalPaymentNum) \o UAH,
                  excess      |-> toFixed2(Sub(totalPaymentNum, Mul(principalNum, Num(2))))
                                  \o UAH] >>
         ELSE << >>)

VerdictV1(violations) ==
    [is_lawful          |-> IsLawful(violations),
     violations         |-> violations,
     recommended_action |-> IF Len(violations) > 0 THEN ACTION_UNLAWFUL_V1
                            ELSE ACTION_LAWFUL_V1]

(* ---- "v2": LoanAnalyzerPage.handleAnalyze ---- *)

TYPE_DAILY_V2 == "Perevyshchennia dennoi stavky"
TYPE_TOTAL_V2 == "Perevyshchennia zahalnoi sumy pereplaty"
ACTION_UNLAWFUL_V2 == "Rekomenduietsia oskarzhyty umovy dohovoru cherez NBU/sud."
ACTION_LAWFUL_V2 == "Dohovir vidpovidaie osnovnym vymoham zakonodavstva."

ViolationsV2Mutant(ld) ==
    LET dailyRatePercent == parseFloat(ld.dailyRate)
        dailyRate        == Div(dailyRatePercent, Num(100))
    IN  IF Gt(dailyRate, ONE_HUNDREDTH)
        THEN << [type        |-> TYPE_DAILY_V2,
                 legal_limit |-> << "1", "%" >>,
                 actual_rate |-> toFixed2(Mul(dailyRate, Num(100))) \o PERCENT,
                 excess      |-> toFixed2(Mul(Sub(dailyRate, ONE_HUNDREDTH), Num(100)))
                                 \o PERCENT] >>
        ELSE << >>
ViolationsV2(ld) ==
    LET principal        == parseFloat(ld.principal)
        dailyRatePercent == parseFloat(ld.dailyRate)
        totalPayment     == parseFloat(ld.totalPayment)
        dailyRate        == Div(dailyRatePercent, Num(100))
    IN  (IF Gt(dailyRate, ONE_HUNDREDTH)
         THEN << [type        |-> TYPE_DAILY_V2,
                  legal_limit |-> << "1", "%" >>,
                  actual_rate |-> toFixed2(Mul(dailyRate, Num(100))) \o PERCENT,
                  excess      |-> toFixed2(Mul(Sub(dailyRate, ONE_HUNDREDTH), Num(100)))
                                  \o PERCENT] >>
         ELSE << >>)
        \o
        (IF Gt(Div(totalPayment, principal), Num(2))
         THEN << [type        |-> TYPE_TOTAL_V2,
                  legal_limit |-> toFixed2(Mul(principal, Num(2))) \o UAH \o NOTE_2X,
                  actual_rate |-> toFixed2(totalPayment) \o UAH,
                  excess      |-> toFixed2(Sub(totalPayment, Mul(principal, Num(2))))
                                  \o UAH] >>
         ELSE << >>)

VerdictV2(violations) ==
    [is_lawful          |-> IsLawful(violations),
     violations         |-> violations,
     recommended_action |-> IF Len(violations) > 0 THEN ACTION_UNLAWFUL_V2
                            ELSE ACTION_LAWFUL_V2]

-----------------------------------------------------------------------------
(* Optional values: null / '' is the empty sequence, a value v is << v >> *)

None == << >>
Some(v) == << v >>

(* The drafting service.  generateComplaintDraft is imported from          *)
(* ./services/geminiService but the service file of the repository does    *)
(* not define it: one request, which resolves with the draft text or       *)
(* rejects, and is never retried.                                          *)
GenerateComplaintDraftOutcomes == {"resolve", "reject"}

ERR_NO_DATA_V3 == "Nedostatno danykh dlia stvorennia skarhy."
ERR_COMPLAINT_V3 == "Pid chas stvorennia skarhy stalasia pomylka. Sprobuite shche raz."

-----------------------------------------------------------------------------
(* App: the theme.  LoanAnalyzerPage ("v2") comes without an App.           *)

\* what localStorage can hold under 'theme' when the App starts
StoredThemes == {None, Some("dark"), Some("light"), Some("blue"), Some("")}

\* the initializer of useState for theme
InitialTheme(v, stored, prefers) ==
    CASE v = "v1" ->
           IF stored = Some("dark") \/ (stored = None /\ prefers) THEN "dark" ELSE "light"
      [] v = "v3" ->
           IF stored = Some("dark") \/ stored = Some("light") THEN stored[1]
           ELSE IF prefers THEN "dark" ELSE "light"
      [] OTHER ->      \* App.tsx: any non-empty stored string is taken as it is
           IF stored # None /\ stored[1] # "" THEN stored[1]
           ELSE IF prefers THEN "dark" ELSE "light"

\* localStorage.setItem('theme', ...) of the effect
ThemeToStore(v, t) ==
    IF v = "v3" THEN t ELSE IF t = "dark" THEN "dark" ELSE "light"

------------------------------------------------------------------------------
(* Initial state: the useState initial values of the mounted page *)

Init ==
    /\ variant \in Variants
    /\ session \in Sessions
    /\ session = "scenarioC" => variant \in {"v2", "v3"}
    /\ session = "scenarioA" => variant = "v3"       \* the initial fields of "v2"
    /\ session = "calculator" => variant = "v3"
    /\ session = "cache" => variant = "ai"          \* the page that imports the module
    /\ session = "theme" => variant \in {"v1", "v3", "ai"}
    /\ IF session = "theme"
       THEN /\ storedTheme \in StoredThemes
            /\ prefersDark \in BOOLEAN
            /\ darkClass \in BOOLEAN               \* whatever the document came with
            /\ themeEffectPending = TRUE
       ELSE /\ storedTheme = Some("light")         \* the effect has run, theme untouched
            /\ prefersDark = FALSE
            /\ darkClass = FALSE
            /\ themeEffectPending = FALSE
    /\ theme = InitialTheme(variant, storedTheme, prefersDark)
    /\ analysisCache = << >>
    /\ cacheCall = None
    /\ calcPrincipal = << >>
    /\ calcDailyRate = << >>
    /\ calcTermDays = << >>
    /\ calcResult = None
    /\ calcError = ""
    /\ calcSubmitted = None
    /\ loanDetails = InitialLoanDetails(variant)
    /\ analysisResult = None
    /\ isAnalyzing = FALSE
    /\ analysisError = IF variant = "ai" THEN Null ELSE ""
    /\ timer = None
    /\ complaintDraft = None
    /\ isGenerating = FALSE
    /\ complaintError = ""
    /\ draftReq = None
    /\ agreementText = ""
    /\ aiReq = None
    /\ selectedFile = None
    /\ isExtracting = FALSE
    /\ extractionError = Null
    /\ extractReq = None
    /\ submitted = None
    /\ lastCall = None

aiVars == << agreementText, aiReq, selectedFile, isExtracting, extractionError,
             extractReq, lastCall >>
draftVars == << complaintDraft, isGenerating, complaintError, draftReq >>

------------------------------------------------------------------------------
(* App: the theme effect and the toggle *)

\* useEffect(..., [theme])
ThemeEffect ==
    /\ session = "theme"
    /\ themeEffectPending
    /\ darkClass' = (theme = "dark")
    /\ storedTheme' = Some(ThemeToStore(variant, theme))
    /\ themeEffectPending' = FALSE
    /\ UNCHANGED << theme, prefersDark, cacheVars, session, variant, calcVars, loanDetails,
                    analysisResult, isAnalyzing, analysisError, timer, draftVars, aiVars,
                    submitted >>

\* toggleTheme, called from the header button; React runs a pending effect
\* before it handles the click
ToggleTheme ==
    /\ session = "theme"
    /\ ~themeEffectPending
    /\ theme' = (IF theme = "light" THEN "dark" ELSE "light")
    /\ themeEffectPending' = (theme' # theme)
    /\ UNCHANGED << storedTheme, darkClass, prefersDark, cacheVars, session, variant, calcVars,
                    loanDetails, analysisResult, isAnalyzing, analysisError, timer, draftVars,
                    aiVars, submitted >>

ThemeNext == ThemeEffect \/ ToggleTheme

-----------------------------------------------------------------------------
(* Actions common to the pages *)

\* e.target.value of a change event on field f
InputValues(f) ==
    IF session = "limits" THEN TypedValues(variant, f)
    ELSE IF variant = "v3" /\ f = "totalPayment" THEN { }   \* no such input
    ELSE ScenarioValues(session, f)

\* handleInputChange / the onChange handlers of the number inputs
HandleInputChange(f, value) ==
    /\ value \in InputValues(f)
    /\ loanDetails' = [loanDetails EXCEPT ![f] = value]
    /\ UNCHANGED << themeVars, cacheVars, session, variant, calcVars, analysisResult, isAnalyzing, analysisError, timer,
                    draftVars, aiVars, submitted >>

\* the callback given to setTimeout(..., 1000) by handleAnalyze (v2, v3)
TimeoutFiresMutant ==
    /\ timer # None
    /\ timer' = None
    /\ UNCHANGED << themeVars, cacheVars, session, variant, calcVars, loanDetails, analysisResult, isAnalyzing,
                    analysisError, draftVars, aiVars, submitted >>
TimeoutFires ==
    /\ timer # None
    /\ analysisResult' = timer
    /\ isAnalyzing' = FALSE
    /\ timer' = None
    /\ UNCHANGED << themeVars, cacheVars, session, variant, calcVars, loanDetails, analysisError, draftVars, aiVars, submitted >>

-----------------------------------------------------------------------------
(* "v1" *)

\* AnalyzerPage.handleAnalyze (first variant): synchronous
HandleAnalyzeV1 ==
    /\ variant = "v1"
    /\ FormSubmittable(variant, loanDetails)
    /\ analysisResult' = Some(VerdictV1(ViolationsV1(loanDetails)))
    /\ complaintDraft' = None
    /\ submitted' = Some(loanDetails)
    /\ UNCHANGED << themeVars, cacheVars, session, variant, calcVars, loanDetails, isAnalyzing, analysisError, timer,
                    isGenerating, complaintError, draftReq, aiVars >>

\* AnalyzerPage.handleGenerateComplaint (first variant), up to the await
HandleGenerateComplaintV1 ==
    /\ variant = "v1"
    /\ analysisResult # None /\ ~analysisResult[1].is_lawful   \* the button is rendered
    /\ ~isGenerating                                           \* and not disabled
    /\ isGenerating' = TRUE
    /\ complaintError' = ""
    /\ complaintDraft' = None
    /\ draftReq' = Some([loanDetails |-> loanDetails, result |-> analysisResult[1]])
    /\ UNCHANGED << themeVars, cacheVars, session, variant, calcVars, loanDetails, analysisResult, isAnalyzing, analysisError,
                    timer, aiVars, submitted >>

-----------------------------------------------------------------------------
(* "v2" *)

\* LoanAnalyzerPage.handleAnalyze
HandleAnalyzeV2 ==
    /\ variant = "v2"
    /\ ~isAnalyzing                                            \* disabled={isLoading}
    /\ isAnalyzing' = TRUE
    /\ analysisResult' = None
    /\ complaintDraft' = None
    /\ timer' = Some(VerdictV2(ViolationsV2(loanDetails)))
    /\ submitted' = Some(loanDetails)
    /\ UNCHANGED << themeVars, cacheVars, session, variant, calcVars, loanDetails, analysisError, isGenerating, complaintError,
                    draftReq, aiVars >>

\* LoanAnalyzerPage.handleGenerateDraft, up to the await
HandleGenerateDraftV2Mutant ==
    /\ variant = "v2"
    /\ analysisResult # None
    /\ ~isGenerating
    /\ isGenerating' = TRUE
    /\ draftReq' = Some([loanDetails |-> loanDetails, result |-> analysisResult[1]])
    /\ UNCHANGED << themeVars, cacheVars, session, variant, calcVars, loanDetails, analysisResult, isAnalyzing,
                    analysisError, timer, complaintDraft, complaintError, aiVars, submitted >>
HandleGenerateDraftV2 ==
    /\ variant = "v2"
    /\ analysisResult # None /\ ~analysisResult[1].is_lawful   \* the button is rendered
    /\ ~isGenerating                                           \* and not disabled
    /\ isGenerating' = TRUE
    /\ draftReq' = Some([loanDetails |-> loanDetails, result |-> analysisResult[1]])
    /\ UNCHANGED << themeVars, cacheVars, session, variant, calcVars, loanDetails, analysisResult, isAnalyzing, analysisError,
                    timer, complaintDraft, complaintError, aiVars, submitted >>

-----------------------------------------------------------------------------
(* "v3" *)

\* AnalyzerPage.handleAnalyze
HandleAnalyzeV3Mutant ==
    /\ variant = "v3"
    /\ ~isAnalyzing                                            \* disabled={isAnalyzing}
    /\ FormSubmittable(variant, loanDetails)
    /\ LET principal        == parseFloat(loanDetails.principal)
           dailyRatePercent == parseFloat(loanDetails.dailyRate)
           term             == parseInt(loanDetails.termDays)
       IN  IF RejectsV3(principal, dailyRatePercent, term)
           THEN /\ analysisError' = ERR_ANALYSIS_V3
                /\ isAnalyzing' = FALSE
                /\ timer' = timer
                /\ submitted' = None
           ELSE /\ analysisError' = ""
                /\ isAnalyzing' = TRUE
                /\ timer' = Some(VerdictV3(IF calcResult # None THEN << >>
                                             ELSE ViolationsV3(principal, dailyRatePercent,
                                                               term)))
                /\ submitted' = Some(loanDetails)
    /\ analysisResult' = None
    /\ complaintDraft' = None
    /\ complaintError' = ""
    /\ UNCHANGED << themeVars, cacheVars, session, variant, calcVars, loanDetails, isGenerating, draftReq, aiVars >>
HandleAnalyzeV3 ==
    /\ variant = "v3"
    /\ ~isAnalyzing                                            \* disabled={isAnalyzing}
    /\ FormSubmittable(variant, loanDetails)
    /\ LET principal        == parseFloat(loanDetails.principal)
           dailyRatePercent == parseFloat(loanDetails.dailyRate)
           term             == parseInt(loanDetails.termDays)
       IN  IF RejectsV3(principal, dailyRatePercent, term)
           THEN /\ analysisError' = ERR_ANALYSIS_V3
                /\ isAnalyzing' = FALSE
                /\ timer' = timer
                /\ submitted' = None
           ELSE /\ analysisError' = ""
                /\ isAnalyzing' = TRUE
                /\ timer' = Some(VerdictV3(ViolationsV3(principal, dailyRatePercent, term)))
                /\ submitted' = Some(loanDetails)
    /\ analysisResult' = None
    /\ complaintDraft' = None
    /\ complaintError' = ""
    /\ UNCHANGED << themeVars, cacheVars, session, variant, calcVars, loanDetails, isGenerating, draftReq, aiVars >>

\* AnalyzerPage.handleGenerateComplaint, up to the await
HandleGenerateComplaintV3 ==
    /\ variant = "v3"
    /\ analysisResult # None /\ ~analysisResult[1].is_lawful   \* the button is rendered
    /\ ~isGenerating                                           \* and not disabled
    /\ IF \/ loanDetails.principal = << >>
          \/ loanDetails.dailyRate = << >>
          \/ loanDetails.termDays = << >>
       THEN /\ complaintError' = ERR_NO_DATA_V3
            /\ UNCHANGED << isGenerating, complaintDraft, draftReq >>
       ELSE LET principal        == parseFloat(loanDetails.principal)
                dailyRateDecimal == Div(parseFloat(loanDetails.dailyRate), Num(100))
                term             == parseInt(loanDetails.termDays)
                totalPayment     == Mul(principal, Add(Num(1), Mul(dailyRateDecimal, term)))
            IN  /\ isGenerating' = TRUE
                /\ complaintDraft' = None
                /\ complaintError' = ""
                /\ draftReq' = Some([loanDetails |->
                                        [principal    |-> loanDetails.principal,
                                         dailyRate    |-> loanDetails.dailyRate,
                                         termDays     |-> loanDetails.termDays,
                                         totalPayment |-> toFixed2(totalPayment)],
                                     result |-> analysisResult[1]])
    /\ UNCHANGED << themeVars, cacheVars, session, variant, calcVars, loanDetails, analysisResult, isAnalyzing, analysisError,
                    timer, aiVars, submitted >>

\* the calculator's validation: TRUE when the input is rejected
RejectsCalc(numPrincipal, numDailyRate, numTermDays) ==
    \/ isNaN(numPrincipal) \/ isNaN(numDailyRate) \/ isNaN(numTermDays)
    \/ Le(numPrincipal, Num(0)) \/ Lt(numDailyRate, Num(0)) \/ Le(numTermDays, Num(0))

\* rateAsDecimal, totalInterest, totalPayment of handleCalculate
CalcTotalPaymentMutant(numPrincipal, numDailyRate, numTermDays) ==
    LET rateAsDecimal == Div(numDailyRate, Num(100))
    IN  Mul(Mul(numPrincipal, rateAsDecimal), numTermDays)
CalcTotalPayment(numPrincipal, numDailyRate, numTermDays) ==
    LET rateAsDecimal == Div(numDailyRate, Num(100))
        totalInterest == Mul(Mul(numPrincipal, rateAsDecimal), numTermDays)
    IN  Add(numPrincipal, totalInterest)

ERR_CALC_V3 == "Bud laska, vvedit diisni dodatni chysla v usi polia."

\* the onChange handlers of the calculator's inputs
SetCalcPrincipal(value) ==
    /\ variant = "v3"
    /\ calcPrincipal' = value
    /\ UNCHANGED << themeVars, cacheVars, session, variant, loanDetails, analysisResult, isAnalyzing, analysisError,
                    timer, draftVars, aiVars, submitted, calcDailyRate, calcTermDays,
                    calcResult, calcError, calcSubmitted >>
SetCalcDailyRate(value) ==
    /\ variant = "v3"
    /\ calcDailyRate' = value
    /\ UNCHANGED << themeVars, cacheVars, session, variant, loanDetails, analysisResult, isAnalyzing, analysisError,
                    timer, draftVars, aiVars, submitted, calcPrincipal, calcTermDays,
                    calcResult, calcError, calcSubmitted >>
SetCalcTermDays(value) ==
    /\ variant = "v3"
    /\ calcTermDays' = value
    /\ UNCHANGED << themeVars, cacheVars, session, variant, loanDetails, analysisResult, isAnalyzing, analysisError,
                    timer, draftVars, aiVars, submitted, calcPrincipal, calcDailyRate,
                    calcResult, calcError, calcSubmitted >>

\* AnalyzerPage.handleCalculate
HandleCalculate ==
    /\ variant = "v3"
    /\ ValidFloatString(calcPrincipal)              \* required number inputs
    /\ ValidFloatString(calcDailyRate)
    /\ ValidFloatString(calcTermDays)
    /\ LET numPrincipal == parseFloat(calcPrincipal)
           numDailyRate == parseFloat(calcDailyRate)
           numTermDays  == parseInt(calcTermDays)
       IN  IF RejectsCalc(numPrincipal, numDailyRate, numTermDays)
           THEN /\ calcError' = ERR_CALC_V3
                /\ calcResult' = None
                /\ calcSubmitted' = None
           ELSE /\ calcError' = ""
                /\ calcResult' =
                       Some([totalPayment |->
                                 CalcTotalPayment(numPrincipal, numDailyRate, numTermDays),
                             dailyRatePercent |-> numDailyRate])
                /\ calcSubmitted' = Some([principal |-> calcPrincipal,
                                          dailyRate |-> calcDailyRate,
                                          termDays  |-> calcTermDays])
    /\ UNCHANGED << themeVars, cacheVars, session, variant, loanDetails, analysisResult, isAnalyzing, analysisError,
                    timer, draftVars, aiVars, submitted, calcPrincipal, calcDailyRate,
                    calcTermDays >>

-----------------------------------------------------------------------------
(* The continuation of the complaint handlers after the await *)

DraftSettles(outcome) ==
    /\ draftReq # None
    /\ outcome \in GenerateComplaintDraftOutcomes
    /\ draftReq' = None
    /\ IF outcome = "resolve"
       THEN /\ complaintDraft' = Some([from |-> draftReq[1].result])
            /\ isGenerating' = FALSE
            /\ UNCHANGED complaintError
       ELSE CASE variant = "v1" ->
                   /\ complaintError' = ERR_COMPLAINT_V1
                   /\ isGenerating' = FALSE
                   /\ UNCHANGED complaintDraft
              [] variant = "v3" ->
                   /\ complaintError' = ERR_COMPLAINT_V3
                   /\ isGenerating' = FALSE
                   /\ UNCHANGED complaintDraft
              [] OTHER ->       \* v2: no try/catch, the rejection is unhandled
                   UNCHANGED << complaintDraft, isGenerating, complaintError >>
    /\ UNCHANGED << themeVars, cacheVars, session, variant, calcVars, loanDetails, analysisResult, isAnalyzing, analysisError,
                    timer, aiVars, submitted >>

-----------------------------------------------------------------------------
(* services/geminiService.ts: analyzeLoanAgreement *)

N_A == << "N", "/", "A" >>

\* the object returned by the catch block of analyzeLoanAgreement
API_ERROR_VERDICT ==
    [is_lawful          |-> FALSE,
     violations         |-> << [type          |-> "API Error",
                                legal_limit   |-> N_A,
                                actual_rate   |-> N_A,
                                excess        |-> N_A,
                                excess_amount |-> N_A] >>,
     recommended_action |-> "An error occurred while analyzing the document. Please check your connection and the provided data, and try again. If the problem persists, the service may be temporarily unavailable."]

\* JSON values the model may answer with.  The first two follow the response
\* schema; the others parse as JSON and do not.
LAWFUL_JSON ==
    [is_lawful |-> TRUE, violations |-> << >>, recommended_action |-> "No action is needed."]
UNLAWFUL_JSON ==
    [is_lawful          |-> FALSE,
     violations         |-> << [type        |-> "Exceeding maximum daily interest rate",
                                legal_limit |-> << "1", "%" >>,
                                actual_rate |-> << "1", ".", "5", "%" >>,
                                excess      |-> << "0", ".", "5", "%" >>] >>,
     recommended_action |-> "File a complaint with the NBU."]
TRUNCATED_JSON == [is_lawful |-> FALSE]
ERROR_JSON == [error |-> "RESOURCE_EXHAUSTED"]
NO_VALUE == [garbage |-> TRUE]

\* what ai.models.generateContent can do: reject, or resolve with a response
\* whose text is undefined, is no JSON, or is JSON (with or without
\* surrounding whitespace)
GenerateContentOutcomes ==
    { [kind |-> "reject",    padded |-> FALSE, json |-> FALSE, value |-> NO_VALUE],
      [kind |-> "undefined", padded |-> FALSE, json |-> FALSE, value |-> NO_VALUE],
      [kind |-> "text",      padded |-> FALSE, json |-> FALSE, value |-> NO_VALUE],
      [kind |-> "text",      padded |-> TRUE,  json |-> TRUE,  value |-> LAWFUL_JSON],
      [kind |-> "text",      padded |-> FALSE, json |-> TRUE,  value |-> UNLAWFUL_JSON],
      [kind |-> "text",      padded |-> TRUE,  json |-> TRUE,  value |-> TRUNCATED_JSON],
      [kind |-> "text",      padded |-> FALSE, json |-> TRUE,  value |-> ERROR_JSON] }

\* String.prototype.trim
trim(text) == [text EXCEPT !.padded = FALSE]

\* JSON.parse throws on a text that is no JSON
JSONParseThrows(text) == ~text.json
JSONParse(text) == text.value

Fulfilled(v) == [state |-> "fulfilled", value |-> v]
Rejected == [state |-> "rejected", value |-> NO_VALUE]

\* the promise analyzeLoanAgreement returns, given what generateContent did
analyzeLoanAgreementMutant(outcome) ==
    IF outcome.kind = "reject" THEN Fulfilled(API_ERROR_VERDICT)
    ELSE IF outcome.kind = "undefined" THEN Rejected
    ELSE LET jsonText == trim(outcome)
         IN  IF JSONParseThrows(jsonText) THEN Rejected
             ELSE Fulfilled(JSONParse(jsonText))
analyzeLoanAgreement(outcome) ==
    IF outcome.kind = "reject" THEN Fulfilled(API_ERROR_VERDICT)
    ELSE IF outcome.kind = "undefined" THEN Fulfilled(API_ERROR_VERDICT)  \* TypeError in try
    ELSE LET jsonText == trim(outcome)
         IN  IF JSONParseThrows(jsonText) THEN Fulfilled(API_ERROR_VERDICT)
             ELSE Fulfilled(JSONParse(jsonText))

-----------------------------------------------------------------------------
(* "ai": AnalyzerPage of App.tsx *)

ERR_NOT_NUMERIC == "Bud laska, vvedit diisni chyslovi znachennia v usi polia."
ERR_PRINCIPAL == "Suma kredytu povynna buty bilshe nulia."
ERR_RATE_LOW == "Denna stavka povynna buty bilshe nulia."
ERR_RATE_HIGH == "Denna stavka ne mozhe perevyshchuvaty 5%. Bud laska, perevirte, chy ne vvely vy richnu stavku."
ERR_TERM == "Termin kredytu povynen buty tsilym chyslom bilshe nulia."
ERR_TOTAL == "Zahalna suma do splaty povynna buty bilshe nulia."
ERR_SUBMIT == "Failed to analyze the agreement. Please try again."

\* validateInputs: the message handed to setError, Null when the inputs pass
validateInputsMutant(ld) ==
    LET principal    == parseFloat(ld.principal)
        dailyRate    == parseFloat(ld.dailyRate)
        termDays     == parseFloat(ld.termDays)
        totalPayment == parseFloat(ld.totalPayment)
    IN  IF isNaN(principal) \/ isNaN(dailyRate) \/ isNaN(termDays) \/ isNaN(totalPayment)
        THEN ERR_NOT_NUMERIC
        ELSE IF Le(principal, Num(0)) THEN ERR_PRINCIPAL
        ELSE IF Le(dailyRate, Num(0)) THEN ERR_RATE_LOW
        ELSE IF Le(termDays, Num(0)) \/ ~IsInteger(termDays) THEN ERR_TERM
        ELSE IF Le(totalPayment, Num(0)) THEN ERR_TOTAL
        ELSE Null
validateInputs(ld) ==
    LET principal    == parseFloat(ld.principal)
        dailyRate    == parseFloat(ld.dailyRate)
        termDays     == parseFloat(ld.termDays)
        totalPayment == parseFloat(ld.totalPayment)
    IN  IF isNaN(principal) \/ isNaN(dailyRate) \/ isNaN(termDays) \/ isNaN(totalPayment)
        THEN ERR_NOT_NUMERIC
        ELSE IF Le(principal, Num(0)) THEN ERR_PRINCIPAL
        ELSE IF Le(dailyRate, Num(0)) THEN ERR_RATE_LOW
        ELSE IF Gt(dailyRate, Num(5)) THEN ERR_RATE_HIGH
        ELSE IF Le(termDays, Num(0)) \/ ~IsInteger(termDays) THEN ERR_TERM
        ELSE IF Le(totalPayment, Num(0)) THEN ERR_TOTAL
        ELSE Null

\* the fallback object built by the catch block of handleSubmit
ERROR_RESULT ==
    [is_lawful          |-> FALSE,
     violations         |-> << [type |-> "Error", legal_limit |-> N_A, actual_rate |-> N_A,
                                excess |-> N_A] >>,
     recommended_action |-> "An unexpected error occurred. Please try again later."]

AgreementTexts == {"", "agreement text"}

\* the onChange handler of the agreement textarea
SetAgreementText(text) ==
    /\ variant = "ai"
    /\ text \in AgreementTexts
    /\ agreementText' = text
    /\ UNCHANGED << themeVars, cacheVars, session, variant, calcVars, loanDetails, analysisResult, isAnalyzing, analysisError, timer,
                    draftVars, aiReq, selectedFile, isExtracting, extractionError,
                    extractReq, lastCall, submitted >>

\* handleSubmit, up to the await
HandleSubmitMutant ==
    /\ variant = "ai"
    /\ FormSubmittable(variant, loanDetails)
    /\ LET error == validateInputs(loanDetails)
       IN  IF error # Null
           THEN /\ analysisError' = error
                /\ UNCHANGED << isAnalyzing, analysisResult, aiReq, submitted, lastCall >>
           ELSE /\ analysisError' = Null
                /\ isAnalyzing' = TRUE
                /\ analysisResult' = None
                /\ aiReq' = Some([loanDetails |-> loanDetails, agreementText |-> agreementText])
                /\ lastCall' = None
                /\ UNCHANGED submitted
    /\ UNCHANGED << themeVars, cacheVars, session, variant, calcVars, loanDetails, timer, draftVars, agreementText, selectedFile,
                    isExtracting, extractionError, extractReq >>
HandleSubmit ==
    /\ variant = "ai"
    /\ ~isAnalyzing                                   \* disabled={isLoading}
    /\ FormSubmittable(variant, loanDetails)
    /\ LET error == validateInputs(loanDetails)
       IN  IF error # Null
           THEN /\ analysisError' = error
                /\ UNCHANGED << isAnalyzing, analysisResult, aiReq, submitted, lastCall >>
           ELSE /\ analysisError' = Null
                /\ isAnalyzing' = TRUE
                /\ analysisResult' = None
                /\ aiReq' = Some([loanDetails |-> loanDetails, agreementText |-> agreementText])
                /\ lastCall' = None
                /\ UNCHANGED submitted
    /\ UNCHANGED << themeVars, cacheVars, session, variant, calcVars, loanDetails, timer, draftVars, agreementText, selectedFile,
                    isExtracting, extractionError, extractReq >>

\* handleSubmit after the await: try / catch / finally
SubmitSettles(outcome) ==
    /\ aiReq # None
    /\ outcome \in GenerateContentOutcomes
    /\ LET promise == analyzeLoanAgreement(outcome)
       IN  /\ IF promise.state = "fulfilled"
              THEN /\ analysisResult' = Some(promise.value)
                   /\ UNCHANGED analysisError
              ELSE /\ analysisError' = ERR_SUBMIT
                   /\ analysisResult' = Some(ERROR_RESULT)
           /\ lastCall' = Some([outcome |-> outcome, promise |-> promise])
    /\ isAnalyzing' = FALSE
    /\ aiReq' = None
    /\ UNCHANGED << themeVars, cacheVars, session, variant, calcVars, loanDetails, timer, draftVars, agreementText, selectedFile,
                    isExtracting, extractionError, extractReq, submitted >>

(* ---- document extraction ---- *)

MAX_FILE_SIZE == 4 * 1024 * 1024
ACCEPTED_TYPES == {"image/jpeg", "image/png", "application/pdf"}

ERR_FILE_BIG == "Fail zavelykyi. Bud laska, zavantazhte fail rozmirom menshe 4 MB."
ERR_FILE_TYPE == "Nevirnyi typ failu. Bud laska, zavantazhte fail JPG, PNG abo PDF."
ERR_EXTRACT_UNKNOWN == "Stalasia nevidoma pomylka pid chas vyluchennia danykh."
ERR_EXTRACT_FAILED == "Failed to extract details from the document. The document might be unreadable or the format is not supported."

\* the files the user can pick
Files ==
    { [size |-> MAX_FILE_SIZE,     type |-> "image/jpeg"],
      [size |-> MAX_FILE_SIZE + 1, type |-> "application/pdf"],
      [size |-> 1024,              type |-> "text/plain"] }

\* handleFileChange
HandleFileChangeMutant(file) ==
    /\ variant = "ai"
    /\ file \in Files
    /\ IF file.size > MAX_FILE_SIZE
       THEN /\ extractionError' = ERR_FILE_BIG
            /\ selectedFile' = None
       ELSE /\ selectedFile' = Some(file)
            /\ extractionError' = Null
    /\ UNCHANGED << themeVars, cacheVars, session, variant, calcVars, loanDetails, analysisResult, isAnalyzing, analysisError, timer,
                    draftVars, agreementText, aiReq, isExtracting, extractReq,
                    lastCall, submitted >>
HandleFileChange(file) ==
    /\ variant = "ai"
    /\ file \in Files
    /\ IF file.size > MAX_FILE_SIZE
       THEN /\ extractionError' = ERR_FILE_BIG
            /\ selectedFile' = None
       ELSE IF file.type \notin ACCEPTED_TYPES
       THEN /\ extractionError' = ERR_FILE_TYPE
            /\ selectedFile' = None
       ELSE /\ selectedFile' = Some(file)
            /\ extractionError' = Null
    /\ UNCHANGED << themeVars, cacheVars, session, variant, calcVars, loanDetails, analysisResult, isAnalyzing, analysisError, timer,
                    draftVars, agreementText, aiReq, isExtracting, extractReq, 
                    lastCall, submitted >>

\* handleExtract, up to the awaits
HandleExtract ==
    /\ variant = "ai"
    /\ selectedFile # None /\ ~isExtracting      \* disabled={!selectedFile || isExtracting},
                                                 \* so the !selectedFile return is never taken
    /\ isExtracting' = TRUE
    /\ extractionError' = Null
    /\ analysisError' = Null
    /\ extractReq' = Some(selectedFile[1])
    /\ UNCHANGED << themeVars, cacheVars, session, variant, calcVars, loanDetails, analysisResult, isAnalyzing, timer, draftVars,
                    agreementText, aiReq, selectedFile, lastCall, submitted >>

\* what fileToBase64 and extractLoanDetailsFromDocument can do: the file
\* cannot be read, the service throws, or it resolves with the parsed JSON
ExtractionOutcomes ==
    { [kind |-> "read-error", principal |-> << >>, dailyRate |-> << >>, termDays |-> << >>],
      [kind |-> "throw",      principal |-> << >>, dailyRate |-> << >>, termDays |-> << >>],
      [kind |-> "details",    principal |-> << "2", "0", "0", "0", "0" >>, dailyRate |-> << >>,
                              termDays  |-> << "1", "4", ".", "5" >>] }

\* a || b on strings: the empty string is falsy
OrElseMutant(a, b) == a
OrElse(a, b) == IF a # << >> THEN a ELSE b

\* handleExtract after the awaits: setLoanDetails(prev => ...) / catch / finally
ExtractSettles(outcome) ==
    /\ extractReq # None
    /\ outcome \in ExtractionOutcomes
    /\ CASE outcome.kind = "read-error" ->
              /\ extractionError' = ERR_EXTRACT_UNKNOWN
              /\ UNCHANGED loanDetails
         [] outcome.kind = "throw" ->
              /\ extractionError' = ERR_EXTRACT_FAILED
              /\ UNCHANGED loanDetails
         [] OTHER ->
              /\ loanDetails' = [loanDetails EXCEPT
                                   !.principal = OrElse(outcome.principal, @),
                                   !.dailyRate = OrElse(outcome.dailyRate, @),
                                   !.termDays  = OrElse(outcome.termDays, @)]
              /\ UNCHANGED extractionError
    /\ isExtracting' = FALSE
    /\ extractReq' = None
    /\ UNCHANGED << themeVars, cacheVars, session, variant, calcVars, analysisResult, isAnalyzing, analysisError, timer, draftVars,
                    agreementText, aiReq, selectedFile, lastCall, submitted >>

------------------------------------------------------------------------------
(* services/geminiService.ts: the cache in front of the document analysis.  *)
(* Strings are sequences of one-character strings.                          *)

\* the characters of codes 32..95 and 97..122, in order
ASCII == << " ", "!", "\"", "#", "$", "%", "&", "'", "(", ")", "*", "+", ",", "-", ".", "/",
           "0", "1", "2", "3", "4", "5", "6", "7", "8", "9", ":", ";", "<", "=", ">", "?",
           "@", "A", "B", "C", "D", "E", "F", "G", "H", "I", "J", "K", "L", "M", "N", "O",
           "P", "Q", "R", "S", "T", "U", "V", "W", "X", "Y", "Z", "[", "\\", "]", "^", "_" >>
LowerCase == << "a", "b", "c", "d", "e", "f", "g", "h", "i", "j", "k", "l", "m",
               "n", "o", "p", "q", "r", "s", "t", "u", "v", "w", "x", "y", "z" >>

\* String.prototype.charCodeAt for the characters above
CharCodeAt(c) ==
    IF \E i \in 1..Len(LowerCase) : LowerCase[i] = c
    THEN 96 + CHOOSE i \in 1..Len(LowerCase) : LowerCase[i] = c
    ELSE 31 + CHOOSE i \in 1..Len(ASCII) : ASCII[i] = c

\* \w of a regular expression without the u flag
WordChars == {c \in {ASCII[i] : i \in 1..Len(ASCII)} \cup {LowerCase[i] : i \in 1..Len(LowerCase)} :
                \/ CharCodeAt(c) \in 48..57
                \/ CharCodeAt(c) \in 65..90
                \/ CharCodeAt(c) \in 97..122
                \/ c = "_"}

CARD_NUMBER == << "[", "C", "A", "R", "D", "_", "N", "U", "M", "B", "E", "R", "]" >>
TAX_ID == << "[", "T", "A", "X", "_", "I", "D", "]" >>
PASSPORT == << "[", "P", "A", "S", "S", "P", "O", "R", "T", "]" >>
ACCOUNT_NUMBER == << "[", "A", "C", "C", "O", "U", "N", "T", "_", "N", "U", "M", "B", "E", "R", "]" >>
EMAIL == << "[", "E", "M", "A", "I", "L", "]" >>

\* s.replace(/\b\d{n}\b/g, label), from index i on: a run of exactly n digits
\* with no word character on either side
RECURSIVE ReplaceDigitRun(_, _, _, _)
ReplaceDigitRun(s, i, n, label) ==
    IF i > Len(s) THEN << >>
    ELSE IF /\ (i = 1 \/ s[i - 1] \notin WordChars)
            /\ i + n - 1 <= Len(s)
            /\ \A j \in i..(i + n - 1) : s[j] \in Digits
            /\ (i + n - 1 = Len(s) \/ s[i + n] \notin WordChars)
         THEN label \o ReplaceDigitRun(s, i + n, n, label)
         ELSE << s[i] >> \o ReplaceDigitRun(s, i + 1, n, label)

\* s.replace(/[\w]+@[\w.-]+/g, EMAIL), from index i on (the Cyrillic
\* ranges of the two classes match no character of ASCII)
RECURSIVE ReplaceEmail(_, _)
ReplaceEmail(s, i) ==
    IF i > Len(s) THEN << >>
    ELSE LET at == SkipWhile(s, i, WordChars)
             end == SkipWhile(s, at + 1, WordChars \cup {".", "-"})
         IN  IF at > i /\ at <= Len(s) /\ s[at] = "@" /\ end > at + 1
             THEN EMAIL \o ReplaceEmail(s, end)
             ELSE << s[i] >> \o ReplaceEmail(s, i + 1)

maskSensitiveData(text) ==
    ReplaceEmail(
        ReplaceDigitRun(
            ReplaceDigitRun(
                ReplaceDigitRun(
                    ReplaceDigitRun(text, 1, 16, CARD_NUMBER),
                    1, 10, TAX_ID),
                1, 9, PASSPORT),
            1, 12, ACCOUNT_NUMBER),
        1)

HexDigits == << "0", "1", "2", "3", "4", "5", "6", "7", "8", "9",
                "a", "b", "c", "d", "e", "f" >>

\* Number.prototype.toString(16) of a natural number below 2^16
RECURSIVE ToHex(_)
ToHex(n) ==
    IF n < 16 THEN << HexDigits[n + 1] >>
    ELSE ToHex(n \div 16) \o << HexDigits[(n % 16) + 1] >>

\* the low half of a number of more than four hexadecimal digits
PadHex4(n) == [i \in 1..(4 - Len(ToHex(n))) |-> "0"] \o ToHex(n)

\* the loop of hashInput from index i on; the 32-bit hash is held as its two
\* 16-bit halves, and ((hash << 5) - hash) + char, truncated by hash & hash,
\* is 31 * hash + char modulo 2^32
RECURSIVE HashLoop(_, _, _, _)
HashLoop(input, i, hi, lo) ==
    IF i > Len(input) THEN << hi, lo >>
    ELSE LET low == 31 * lo + CharCodeAt(input[i])
         IN  HashLoop(input, i + 1, (31 * hi + low \div 65536) % 65536, low % 65536)

\* Math.abs(hash).toString(16): a hash with the sign bit set is negated
hashInput(input) ==
    LET hash == HashLoop(input, 1, 0, 0)
        negative == hash[1] >= 32768
        lo == IF negative THEN (65536 - hash[2]) % 65536 ELSE hash[2]
        hi == IF negative
              THEN (65535 - hash[1] + (IF hash[2] = 0 THEN 1 ELSE 0)) % 65536
              ELSE hash[1]
    IN  IF hi = 0 THEN ToHex(lo) ELSE ToHex(hi) \o PadHex4(lo)

\* arguments of analyzeLoanAgreementWithCache
DocumentData == { << "J", "V", "B", "E", "R", "i", "0", "x" >>,
                  << "i", "d", " ", "1", "2", "3", "4", "5", "6", "7", "8", "9" >>,
                  << "i", "d", " ", "9", "8", "7", "6", "5", "4", "3", "2", "1" >>,
                  << "a", "@", "b", ".", "u", "a" >> }
MimeTypes == {"image/png", "application/pdf"}
FileData == [data : DocumentData, mimeType : MimeTypes]

\* what evaluating extractionDetailsFromDocument(fileData) does (argument is
\* the value the call names, fileData and not maskedData): the module
\* neither declares nor imports the identifier, so the call throws
\* ReferenceError before any request is made
ExtractionDetailsOutcomes == { [kind |-> "throws", requests |-> 0] }

analyzeLoanAgreementWithCache(fileData) ==
    /\ session = "cache"
    /\ LET maskedData == maskSensitiveData(fileData.data)
           cacheKey == hashInput(maskedData)
       IN  IF cacheKey \in DOMAIN analysisCache
           THEN /\ cacheCall' = Some([fileData |-> fileData, cacheKey |-> cacheKey,
                                      hit |-> TRUE, requests |-> 0, argument |-> None,
                                      returned |-> Some(analysisCache[cacheKey])])
                /\ UNCHANGED analysisCache
           ELSE \E outcome \in ExtractionDetailsOutcomes :
                  IF outcome.kind = "throws"
                  THEN \* caught: console.error and return null
                       /\ cacheCall' = Some([fileData |-> fileData, cacheKey |-> cacheKey,
                                             hit |-> FALSE, requests |-> outcome.requests,
                                             argument |-> Some(fileData),
                                             returned |-> None])
                       /\ UNCHANGED analysisCache
                  ELSE /\ cacheCall' = Some([fileData |-> fileData, cacheKey |-> cacheKey,
                                             hit |-> FALSE, requests |-> outcome.requests,
                                             argument |-> Some(fileData),
                                             returned |-> outcome.result])
                       /\ analysisCache' =
                              IF outcome.result # None
                              THEN [k \in DOMAIN analysisCache \cup {cacheKey} |->
                                        IF k = cacheKey THEN outcome.result[1]
                                        ELSE analysisCache[k]]
                              ELSE analysisCache
    /\ UNCHANGED << themeVars, session, variant, calcVars, loanDetails, analysisResult, isAnalyzing,
                    analysisError, timer, draftVars, aiVars, submitted >>

CacheNext == \E fileData \in FileData : analyzeLoanAgreementWithCache(fileData)

\* a session on the theme leaves the agreement text and the file input alone
TypedAgreementTexts == IF session = "theme" THEN { } ELSE AgreementTexts
PickedFiles == IF session = "theme" THEN { } ELSE Files

AiNext ==
    \/ \E text \in TypedAgreementTexts : SetAgreementText(text)
    \/ HandleSubmit
    \/ \E outcome \in GenerateContentOutcomes : SubmitSettles(outcome)
    \/ \E file \in PickedFiles : HandleFileChange(file)
    \/ HandleExtract
    \/ \E outcome \in ExtractionOutcomes : ExtractSettles(outcome)

LocalNext ==
    \/ \E f \in Fields : \E value \in InputValues(f) : HandleInputChange(f, value)
    \/ TimeoutFires
    \/ HandleAnalyzeV1
    \/ HandleGenerateComplaintV1
    \/ HandleAnalyzeV2
    \/ HandleGenerateDraftV2
    \/ HandleAnalyzeV3
    \/ HandleGenerateComplaintV3
    \/ \E value \in CalcInputValues("principal") : SetCalcPrincipal(value)
    \/ \E value \in CalcInputValues("dailyRate") : SetCalcDailyRate(value)
    \/ \E value \in CalcInputValues("termDays") : SetCalcTermDays(value)
    \/ HandleCalculate
    \/ \E outcome \in GenerateComplaintDraftOutcomes : DraftSettles(outcome)

Next == LocalNext \/ AiNext \/ CacheNext \/ ThemeNext

Spec == Init /\ [][Next]_vars

\* a callback registered with setTimeout runs once its delay has passed: the
\* handlers are synchronous up to their awaits and nothing calls clearTimeout
LiveSpec == Spec /\ WF_vars(TimeoutFires)

-----------------------------------------------------------------------------
(* Properties.  A verdict of a local page is read together with the fields *)
(* it was computed from (submitted).                                        *)

HasType(violations, type) == \E i \in 1..Len(violations) : violations[i].type = type

PublishedV3 == variant = "v3" /\ analysisResult # None
SubmittedPrincipal == parseFloat(submitted[1].principal)
SubmittedRate == parseFloat(submitted[1].dailyRate)
SubmittedTerm == parseInt(submitted[1].termDays)
SubmittedTotalV3 == DerivedTotalPayment(SubmittedPrincipal, SubmittedRate, SubmittedTerm)
TwicePrincipal == Mul(SubmittedPrincipal, Num(2))

\* C1: on the page with MAX_DAILY_RATE = 1.0, a published verdict holds the
\* daily-rate violation if and only if the submitted rate is strictly above
\* 1.0; a rate of exactly 1.00 yields none.
C1_DailyRateStrict ==
    PublishedV3 =>
        (HasType(analysisResult[1].violations, TYPE_DAILY_V3) <=> Gt(SubmittedRate, Num(1)))

\* a verdict for a rate of exactly 1 was published, without the violation
C1_Witness ==
    /\ PublishedV3
    /\ submitted[1].dailyRate = << "1" >>
    /\ ~HasType(analysisResult[1].violations, TYPE_DAILY_V3)

\* C2: a published verdict holds the total-payment violation if and only if
\* the total payment is strictly above twice the principal; a total of exactly
\* twice the principal yields none.
C2_TotalPaymentStrict ==
    PublishedV3 =>
        (HasType(analysisResult[1].violations, TYPE_TOTAL_V3)
            <=> Gt(SubmittedTotalV3, TwicePrincipal))

\* a verdict for a total of exactly twice the principal was published
C2_Witness ==
    /\ PublishedV3
    /\ SubmittedTotalV3 = TwicePrincipal
    /\ ~HasType(analysisResult[1].violations, TYPE_TOTAL_V3)

\* C3: every verdict published by a local page has is_lawful true exactly
\* when its violations list is empty.
C3_LawfulIffNoViolations ==
    (variant # "ai" /\ analysisResult # None) =>
        (analysisResult[1].is_lawful <=> analysisResult[1].violations = << >>)

\* an unlawful verdict with a single violation was published
C3_Witness ==
    /\ variant # "ai" /\ analysisResult # None
    /\ Len(analysisResult[1].violations) = 1
    /\ ~analysisResult[1].is_lawful

\* C4: both rules are evaluated on every accepted input: the list holds one
\* entry per rule that triggers, and when both trigger it is exactly the
\* daily-rate violation followed by the total-payment violation.
C4_BothRulesInOrder ==
    PublishedV3 =>
        LET v     == analysisResult[1].violations
            daily == Gt(SubmittedRate, Num(1))
            total == Gt(SubmittedTotalV3, TwicePrincipal)
        IN  /\ Len(v) = (IF daily THEN 1 ELSE 0) + (IF total THEN 1 ELSE 0)
            /\ daily => v[1].type = TYPE_DAILY_V3
            /\ total => v[Len(v)].type = TYPE_TOTAL_V3
            /\ (daily /\ total) =>
                   /\ Len(v) = 2
                   /\ v[1].type = TYPE_DAILY_V3
                   /\ v[2].type = TYPE_TOTAL_V3

\* a verdict with both violations was published
C4_Witness ==
    /\ PublishedV3
    /\ Gt(SubmittedRate, Num(1))
    /\ Gt(SubmittedTotalV3, TwicePrincipal)
    /\ Len(analysisResult[1].violations) = 2

\* the input invariants of the terms a local page reads (the third page has
\* no totalPayment field and derives the total)
ValidTerms(v, ld) ==
    /\ ~isNaN(parseFloat(ld.principal)) /\ Gt(parseFloat(ld.principal), Num(0))
    /\ ~isNaN(parseFloat(ld.dailyRate)) /\ Gt(parseFloat(ld.dailyRate), Num(0))
    /\ ~isNaN(parseFloat(ld.termDays))
    /\ Gt(parseFloat(ld.termDays), Num(0)) /\ IsInteger(parseFloat(ld.termDays))
    /\ v # "v3" =>
           /\ ~isNaN(parseFloat(ld.totalPayment))
           /\ Gt(parseFloat(ld.totalPayment), Num(0))

\* C5: no local page computes or publishes a verdict from terms that break
\* the input invariants (a non-numeric field, principal <= 0, rate <= 0,
\* term <= 0 or non-integer, total payment <= 0).
C5_NoVerdictFromInvalidTerms ==
    (variant # "ai" /\ (analysisResult # None \/ timer # None)) =>
        ValidTerms(variant, submitted[1])

\* what validateInputs is to accept: all four fields parse as numbers,
\* principal > 0, 0 < dailyRate <= 5, termDays a positive integer,
\* totalPayment > 0
ValidAiFields(ld) ==
    /\ \A f \in Fields : ~isNaN(parseFloat(ld[f]))
    /\ Gt(parseFloat(ld.principal), Num(0))
    /\ Gt(parseFloat(ld.dailyRate), Num(0)) /\ Le(parseFloat(ld.dailyRate), Num(5))
    /\ Gt(parseFloat(ld.termDays), Num(0)) /\ IsInteger(parseFloat(ld.termDays))
    /\ Gt(parseFloat(ld.totalPayment), Num(0))

\* C6: on the AI page a request is issued only by a step taken with valid
\* form fields (typed or filled by extraction) and carries those fields; a
\* submit with invalid fields sets an error message and issues no request.
C6_RequestOnlyAfterValidation ==
    [][ /\ (aiReq' # None /\ aiReq' # aiReq) =>
               /\ ValidAiFields(loanDetails)
               /\ aiReq'[1].loanDetails = loanDetails
        /\ (HandleSubmit /\ ~ValidAiFields(loanDetails)) =>
               /\ analysisError' # Null
               /\ aiReq' = aiReq
               /\ isAnalyzing' = isAnalyzing
               /\ analysisResult' = analysisResult ]_vars

\* a request is in flight whose principal was filled by document extraction
C6_Witness ==
    /\ variant = "ai"
    /\ aiReq # None
    /\ aiReq[1].loanDetails.principal = << "2", "0", "0", "0", "0" >>
    /\ loanDetails.termDays = << "3", "0" >>

\* the external call failed, or its response text could not be parsed
CallFailed(outcome) == outcome.kind # "text" \/ ~outcome.json

\* the synthetic verdict: unlawful, one "API Error" violation, generic action
IsSyntheticVerdict(v) ==
    /\ DOMAIN v = {"is_lawful", "violations", "recommended_action"}
    /\ v.is_lawful = FALSE
    /\ Len(v.violations) = 1
    /\ v.violations[1].type = "API Error"
    /\ v.recommended_action = API_ERROR_VERDICT.recommended_action

\* C7: analyzeLoanAgreement never rejects; when the external call fails or
\* its text cannot be parsed it resolves to the synthetic "API Error" verdict,
\* which is what the page then shows.
C7_NeverRejects ==
    lastCall # None =>
        /\ lastCall[1].promise.state = "fulfilled"
        /\ analysisResult # Some(ERROR_RESULT)
        /\ CallFailed(lastCall[1].outcome) =>
               /\ IsSyntheticVerdict(lastCall[1].promise.value)
               /\ analysisResult = Some(lastCall[1].promise.value)

\* a call whose response text was no JSON has settled
C7_Witness ==
    /\ lastCall # None
    /\ lastCall[1].outcome.kind = "text" /\ ~lastCall[1].outcome.json
    /\ analysisResult # None
    /\ analysisResult[1].violations[1].type = "API Error"

\* the ComplianceVerdict shape (types.ts: AnalysisResult, Violation)
HasVerdictShape(v) ==
    /\ {"is_lawful", "violations", "recommended_action"} \subseteq DOMAIN v
    /\ v.is_lawful \in BOOLEAN
    /\ \A i \in 1..Len(v.violations) :
           {"type", "legal_limit", "actual_rate", "excess"} \subseteq DOMAIN v.violations[i]

\* C8: every result that reaches analysisResult on the AI page has the
\* ComplianceVerdict shape; a JSON response of another shape is replaced by
\* the synthetic "API Error" verdict.
C8_ResultHasVerdictShape ==
    (variant = "ai" /\ analysisResult # None) =>
        /\ HasVerdictShape(analysisResult[1])
        /\ (lastCall # None /\ ~HasVerdictShape(lastCall[1].outcome.value)) =>
               IsSyntheticVerdict(analysisResult[1])

\* C9: the daily-rate violation carries legal_limit "1.00%", actual_rate the
\* submitted rate to 2 decimals and "%", excess (rate - 1.00) to 2 decimals
\* and "%".
C9_DailyViolationFields ==
    PublishedV3 =>
        \A i \in 1..Len(analysisResult[1].violations) :
            LET v == analysisResult[1].violations[i]
            IN  v.type = TYPE_DAILY_V3 =>
                    /\ v.legal_limit = << "1", ".", "0", "0", "%" >>
                    /\ v.actual_rate = toFixed2(SubmittedRate) \o << "%" >>
                    /\ v.excess = toFixed2(Sub(SubmittedRate, Num(1))) \o << "%" >>

\* the violation for a rate of 1.01 was published: "1.01%", excess "0.01%"
C9_Witness ==
    /\ PublishedV3
    /\ submitted[1].dailyRate = << "1", ".", "0", "1" >>
    /\ analysisResult[1].violations[1].type = TYPE_DAILY_V3
    /\ analysisResult[1].violations[1].actual_rate = << "1", ".", "0", "1", "%" >>
    /\ analysisResult[1].violations[1].excess = << "0", ".", "0", "1", "%" >>

\* C10 as stated: the total-payment violation's legal limit is twice the
\* principal to 2 decimals, its actual value the total to 2 decimals, its
\* excess_amount (total - twice the principal) to 2 decimals, each followed
\* by the currency and nothing else; only this violation has excess_amount.
C10_TotalViolationFieldsAsStated ==
    PublishedV3 =>
        \A i \in 1..Len(analysisResult[1].violations) :
            LET v == analysisResult[1].violations[i]
            IN  /\ v.type = TYPE_TOTAL_V3 =>
                       /\ v.legal_limit = toFixed2(TwicePrincipal) \o HRN
                       /\ v.actual_rate = toFixed2(SubmittedTotalV3) \o HRN
                       /\ v.excess_amount =
                              toFixed2(Sub(SubmittedTotalV3, TwicePrincipal)) \o HRN
                /\ "excess_amount" \in DOMAIN v => v.type = TYPE_TOTAL_V3

\* C10, amended: the legal limit is twice the principal to 2 decimals and the
\* currency, followed by the note " (2x vid tila kredytu)"; the actual value
\* and excess_amount are the number to 2 decimals and the currency; only the
\* total-payment violation has excess_amount.
C10_TotalViolationFields ==
    PublishedV3 =>
        \A i \in 1..Len(analysisResult[1].violations) :
            LET v == analysisResult[1].violations[i]
            IN  /\ v.type = TYPE_TOTAL_V3 =>
                       /\ v.legal_limit = toFixed2(TwicePrincipal) \o HRN \o NOTE_2X
                       /\ v.actual_rate = toFixed2(SubmittedTotalV3) \o HRN
                       /\ v.excess_amount =
                              toFixed2(Sub(SubmittedTotalV3, TwicePrincipal)) \o HRN
                /\ "excess_amount" \in DOMAIN v => v.type = TYPE_TOTAL_V3

\* both violations were published for 6 at 2% over 100 days: total 18.00,
\* limit 12.00, excess_amount 6.00, and the daily-rate entry has no
\* excess_amount
C10_Witness ==
    /\ PublishedV3
    /\ Len(analysisResult[1].violations) = 2
    /\ "excess_amount" \notin DOMAIN analysisResult[1].violations[1]
    /\ analysisResult[1].violations[2].actual_rate = << "1", "8", ".", "0", "0" >> \o HRN
    /\ StartsWith(analysisResult[1].violations[2].legal_limit,
                  << "1", "2", ".", "0", "0" >> \o HRN)
    /\ analysisResult[1].violations[2].excess_amount = << "6", ".", "0", "0" >> \o HRN

\* the unit of a formatted value: what follows its leading number
UnitOf(s) == SubSeq(s, SkipWhile(s, 1, Digits \cup {"-", "."}), Len(s))

PublishedLocal == variant # "ai" /\ analysisResult # None

\* C11: for every violation a local page emits, of either kind, the excess
\* field is the actual value minus the legal limit, in the unit of those two
\* fields.
C11_ExcessIsActualMinusLimit ==
    PublishedLocal =>
        \A i \in 1..Len(analysisResult[1].violations) :
            LET v == analysisResult[1].violations[i]
            IN  /\ ~isNaN(parseFloat(v.excess))
                /\ parseFloat(v.excess) =
                       Sub(parseFloat(v.actual_rate), parseFloat(v.legal_limit))
                /\ UnitOf(v.excess) = UnitOf(v.actual_rate)
                /\ StartsWith(UnitOf(v.legal_limit), UnitOf(v.actual_rate))

\* the two fixed strings of each local page
ActionWhenLawful(v) ==
    CASE v = "v1" -> ACTION_LAWFUL_V1 [] v = "v2" -> ACTION_LAWFUL_V2 [] OTHER -> ACTION_LAWFUL_V3
ActionWhenUnlawful(v) ==
    CASE v = "v1" -> ACTION_UNLAWFUL_V1 [] v = "v2" -> ACTION_UNLAWFUL_V2
      [] OTHER -> ACTION_UNLAWFUL_V3

\* C12: the recommended_action of a local verdict is one of two fixed strings
\* and is selected only by whether the violations list is empty.
C12_ActionSelectedByLawfulness ==
    PublishedLocal =>
        analysisResult[1].recommended_action =
            IF analysisResult[1].violations = << >>
            THEN ActionWhenLawful(variant) ELSE ActionWhenUnlawful(variant)

\* a verdict with two violations carries the same string as one with a single
\* violation does
C12_Witness ==
    /\ PublishedV3
    /\ Len(analysisResult[1].violations) = 2
    /\ analysisResult[1].recommended_action = ACTION_UNLAWFUL_V3

\* the submitted fields are those of the worked example
\* {3000, 2.0 %, 14 days, 8000} (the third page has no totalPayment field)
SubmittedScenarioC ==
    /\ submitted # None
    /\ submitted[1].principal = << "3", "0", "0", "0" >>
    /\ submitted[1].dailyRate = << "2" >>
    /\ submitted[1].termDays = << "1", "4" >>
    /\ variant = "v2" => submitted[1].totalPayment = << "8", "0", "0", "0" >>

\* the excess amount of a total-payment violation: excess_amount where the
\* page has that field, excess otherwise
ExcessAmountOf(v) == IF "excess_amount" \in DOMAIN v THEN v.excess_amount ELSE v.excess

SubmittedScenarioA ==
    /\ submitted # None
    /\ submitted[1].principal = << "1", "0", "0", "0", "0" >>
    /\ submitted[1].dailyRate = << "1", ".", "5" >>
    /\ submitted[1].termDays = << "3", "0" >>
    /\ variant = "v2" => submitted[1].totalPayment = << "1", "4", "5", "0", "0" >>

\* C14: evaluating {10000, 1.5, 30, 14500} yields an unlawful verdict with
\* exactly one violation, the daily-rate one, actual value "1.50%" and excess
\* "0.50%"; the total-payment rule does not fire (14500 <= 20000).
C14_ScenarioA ==
    (PublishedLocal /\ variant \in {"v2", "v3"} /\ SubmittedScenarioA) =>
        LET v == analysisResult[1].violations
        IN  /\ ~analysisResult[1].is_lawful
            /\ Len(v) = 1
            /\ v[1].type = TYPE_DAILY_V3
            /\ v[1].actual_rate = << "1", ".", "5", "0", "%" >>
            /\ v[1].excess = << "0", ".", "5", "0", "%" >>
            /\ variant = "v3" => SubmittedTotalV3 = Num(14500)

\* the verdict of the example was published by the third page, which derives
\* the total payment 14500
C14_Witness ==
    /\ PublishedV3
    /\ SubmittedScenarioA
    /\ Len(analysisResult[1].violations) = 1

\* principal x (1 + dailyRatePercent / 100 x termDays) of the fields ld
ClaimedTotal(ld) ==
    Mul(parseFloat(ld.principal),
        Add(Num(1), Mul(Div(parseFloat(ld.dailyRate), Num(100)), parseInt(ld.termDays))))

SameTerms(a, b) ==
    /\ parseFloat(a.principal) = parseFloat(b.principal)
    /\ parseFloat(a.dailyRate) = parseFloat(b.dailyRate)
    /\ parseInt(a.termDays) = parseInt(b.termDays)

AnalysisPendingV3 == variant = "v3" /\ timer # None

\* a well-formed verdict is shown, the analyzing flag is down, no error is set
VerdictShownV3 ==
    /\ PublishedV3
    /\ ~isAnalyzing
    /\ analysisError = ""
    /\ HasVerdictShape(analysisResult[1])
    /\ analysisResult[1].violations =
           ViolationsV3(SubmittedPrincipal, SubmittedRate, SubmittedTerm)

\* C16: once the third page has accepted a submitted input, no error is set
\* for it, and its well-formed verdict is eventually published with the
\* analyzing flag back to false.
C16_AcceptedInputGetsVerdict ==
    /\ [](AnalysisPendingV3 => (isAnalyzing /\ analysisError = ""))
    /\ (AnalysisPendingV3 ~> VerdictShownV3)

\* a verdict is shown for an accepted input
C16_Witness ==
    /\ VerdictShownV3
    /\ submitted # None
    /\ timer = None

\* the verdict of the third page as a function of the submitted fields alone
VerdictOfFields(ld) ==
    VerdictV3(ViolationsV3(parseFloat(ld.principal), parseFloat(ld.dailyRate),
                           parseInt(ld.termDays)))

\* C17: the verdict the third page computes and publishes is a function of
\* the submitted field values alone, whatever analyses, calculations and
\* complaint requests came before: identical fields give identical verdicts.
C17_VerdictDependsOnFieldsOnly ==
    variant = "v3" =>
        /\ timer # None => timer[1] = VerdictOfFields(submitted[1])
        /\ analysisResult # None => analysisResult[1] = VerdictOfFields(submitted[1])

\* a verdict is shown after a calculation and while the complaint for an
\* earlier, different verdict is still being drafted
C17_Witness ==
    /\ PublishedV3
    /\ calcResult # None
    /\ draftReq # None
    /\ draftReq[1].result # analysisResult[1]

\* C18: a request to the drafting service is issued only by a click on the
\* enabled control, one per click and never re-issued when it settles; when
\* the request fails, a failure message is set and no draft is displayed.
C18_OneRequestAndFailureMessage ==
    [][ /\ (draftReq' # None /\ draftReq' # draftReq) =>
               (draftReq = None /\ ~isGenerating /\ isGenerating')
        /\ DraftSettles("reject") =>
               /\ draftReq' = None
               /\ complaintError' # ""
               /\ complaintDraft' = None ]_vars

\* C19: a request to the drafting service carries an unlawful verdict, and it
\* is issued only from a state whose current verdict exists, is unlawful and
\* is the one the request carries.
C19_DraftOnlyForUnlawfulVerdict ==
    /\ [](draftReq # None =>
              /\ ~draftReq[1].result.is_lawful
              /\ draftReq[1].result.violations # << >>)
    /\ [][ (draftReq' # None /\ draftReq' # draftReq) =>
               /\ analysisResult # None
               /\ ~analysisResult[1].is_lawful
               /\ draftReq'[1].result = analysisResult[1] ]_vars

\* a request is in flight on the page whose handler tests only !result
C19_Witness ==
    /\ variant = "v2"
    /\ draftReq # None
    /\ analysisResult = Some(draftReq[1].result)

\* C20: a call of analyzeLoanAgreementWithCache either finds a result stored
\* for its document and returns it without a request to the external service,
\* or issues one request, and a non-null result it obtains is the one stored
\* for the document afterwards.
C20_MemoizesByDocument ==
    cacheCall # None =>
        LET call == cacheCall[1]
        IN  IF call.hit
            THEN call.requests = 0 /\ call.returned # None
            ELSE /\ call.requests = 1
                 /\ call.returned # None =>
                        /\ call.cacheKey \in DOMAIN analysisCache
                        /\ analysisCache[call.cacheKey] = call.returned[1]

\* C21: the document data a call of analyzeLoanAgreementWithCache hands to
\* the external analysis is the output of maskSensitiveData, which masking
\* leaves as it is: no standalone 16-, 12-, 10- or 9-digit number and no
\* e-mail address is left in it.
C21_MaskedBeforeSent ==
    (cacheCall # None /\ ~cacheCall[1].hit) =>
        LET call == cacheCall[1]
        IN  /\ call.argument # None
            /\ call.argument[1].data = maskSensitiveData(call.fileData.data)
            /\ maskSensitiveData(call.argument[1].data) = call.argument[1].data

\* C22: on the third page a verdict holds the total-payment violation exactly
\* when rate (percent) times term exceeds 100, whatever the principal; so a
\* rate of at most 1 with a term of at most 100 gives no such violation.
C22_TotalViolationIffRateTimesTerm ==
    (PublishedV3 /\ submitted # None) =>
        /\ HasType(analysisResult[1].violations, TYPE_TOTAL_V3)
               <=> Gt(Mul(SubmittedRate, SubmittedTerm), Num(100))
        /\ (Le(SubmittedRate, Num(1)) /\ Le(SubmittedTerm, Num(100))) =>
               ~HasType(analysisResult[1].violations, TYPE_TOTAL_V3)

\* the total-payment violation alone, at a rate within the daily limit; and
\* (in other states) rate times term of exactly 100 without it
C22_Witness ==
    /\ PublishedV3 /\ submitted # None
    /\ Le(SubmittedRate, Num(1))
    /\ Gt(Mul(SubmittedRate, SubmittedTerm), Num(100))
    /\ analysisResult[1].violations # << >>
    /\ \A i \in 1..Len(analysisResult[1].violations) :
           analysisResult[1].violations[i].type = TYPE_TOTAL_V3

\* C23: a complaint draft held in the page state was generated from the
\* verdict the page holds now, and that verdict is unlawful, however the
\* clicks on analyze interleave with a pending drafting request.
C23_DraftBelongsToCurrentVerdict ==
    complaintDraft # None =>
        /\ analysisResult # None
        /\ ~analysisResult[1].is_lawful
        /\ complaintDraft[1].from = analysisResult[1]

\* C24: the generating flag is raised only while a drafting request is
\* pending, and the step that settles the request, resolved or rejected,
\* lowers it again, so the generate control is enabled afterwards.
C24_GeneratingFlagReturns ==
    [][ /\ isGenerating' => draftReq' # None
        /\ (\E outcome \in GenerateComplaintDraftOutcomes : DraftSettles(outcome)) =>
               ~isGenerating' ]_vars

\* C25: on the AI-assisted page a request is started only when none is in
\* flight, isLoading is true exactly while one is, no verdict is held during
\* that time, and the step that completes the request lowers isLoading.
C25_OneAnalysisInFlight ==
    /\ [](variant = "ai" =>
              /\ isAnalyzing <=> aiReq # None
              /\ aiReq # None => analysisResult = None)
    /\ [][ /\ (aiReq' # None /\ aiReq' # aiReq) => (aiReq = None /\ ~isAnalyzing)
           /\ (aiReq # None /\ aiReq' # aiReq) => (aiReq' = None /\ ~isAnalyzing') ]_vars

\* a request in flight while the user has already changed the form
C25_Witness ==
    /\ variant = "ai"
    /\ aiReq # None
    /\ aiReq[1].loanDetails # loanDetails
    /\ isAnalyzing

AcceptedFile(file) == file.size <= MAX_FILE_SIZE /\ file.type \in ACCEPTED_TYPES

\* C26: selectedFile is null or a file of at most 4 MB of type image/jpeg,
\* image/png or application/pdf, an extraction request is issued only for
\* such a file, and selecting any other file clears selectedFile and sets
\* extractionError.
C26_OnlyAcceptedFiles ==
    /\ [](/\ selectedFile # None => AcceptedFile(selectedFile[1])
          /\ extractReq # None => AcceptedFile(extractReq[1]))
    /\ [][ \A file \in Files :
               (HandleFileChange(file) /\ ~AcceptedFile(file)) =>
                   (selectedFile' = None /\ extractionError' # Null) ]_vars

\* a rejected selection has cleared the file an extraction is running for
C26_Witness ==
    /\ selectedFile = None
    /\ extractionError \in {ERR_FILE_BIG, ERR_FILE_TYPE}
    /\ extractReq # None
    /\ AcceptedFile(extractReq[1])

ExtractedFields == {"principal", "dailyRate", "termDays"}

\* C27: document extraction leaves totalPayment, agreementText and
\* analysisResult as they are; it replaces principal, dailyRate or termDays
\* only by a non-empty extracted value; a failed extraction leaves loanDetails
\* unchanged and sets extractionError; isExtracting is false once it is over.
C27_ExtractionFrame ==
    [][ /\ HandleExtract => UNCHANGED << loanDetails, agreementText, analysisResult >>
        /\ \A outcome \in ExtractionOutcomes :
               ExtractSettles(outcome) =>
                   /\ loanDetails'.totalPayment = loanDetails.totalPayment
                   /\ UNCHANGED << agreementText, analysisResult >>
                   /\ \A f \in ExtractedFields :
                          loanDetails'[f] # loanDetails[f] =>
                              (outcome[f] # << >> /\ loanDetails'[f] = outcome[f])
                   /\ outcome.kind # "details" =>
                          (loanDetails' = loanDetails /\ extractionError' # Null)
                   /\ ~isExtracting' ]_vars

\* an extraction has filled in principal and termDays and kept the typed
\* dailyRate, for which it found nothing (neither value can be typed here)
C27_Witness ==
    /\ variant = "ai"
    /\ loanDetails.principal = << "2", "0", "0", "0", "0" >>
    /\ loanDetails.termDays = << "1", "4", ".", "5" >>
    /\ loanDetails.dailyRate # << >>
    /\ ~isExtracting
    /\ extractReq = None

\* C28: the theme state is 'light' or 'dark' whatever was stored at start-up,
\* toggleTheme switches it to the other of the two, and once the theme effect
\* has run the stored 'theme' equals the theme state and the document carries
\* the 'dark' class exactly when the theme is 'dark'.
C28_ThemeLightOrDark ==
    /\ [](/\ theme \in {"light", "dark"}
          /\ ~themeEffectPending =>
                 /\ storedTheme = Some(theme)
                 /\ darkClass <=> theme = "dark")
    /\ [][ ToggleTheme =>
               /\ theme' \in {"light", "dark"}
               /\ theme' # theme ]_vars

\* C29: the cache entry a call of analyzeLoanAgreementWithCache reads and
\* writes belongs to its document alone: no document with different content
\* has the same cache key, so a stored result can only come from a call with
\* the same document data.
C29_CacheEntryPerDocument ==
    cacheCall # None =>
        \A data \in DocumentData :
            hashInput(maskSensitiveData(data)) = cacheCall[1].cacheKey =>
                data = cacheCall[1].fileData.data

\* C30: the catch branch of handleSubmit is never taken: the AI-assisted page
\* never holds the local fallback verdict (violation type 'Error') nor the
\* message 'Failed to analyze the agreement. Please try again.', and from an
\* accepted submit until its request has completed the error field is null.
C30_SubmitCatchUnreachable ==
    /\ [](variant = "ai" =>
              /\ analysisResult # Some(ERROR_RESULT)
              /\ analysisError # ERR_SUBMIT
              /\ aiReq # None => analysisError = Null)
    /\ [][ \A outcome \in GenerateContentOutcomes :
               SubmitSettles(outcome) =>
                   /\ analysisError' = Null
                   /\ analysisResult' = Some(analyzeLoanAgreement(outcome).value) ]_vars

\* a request whose generateContent call rejected has completed
C30_Witness ==
    /\ variant = "ai"
    /\ lastCall # None
    /\ lastCall[1].outcome.kind = "reject"
    /\ analysisResult = Some(API_ERROR_VERDICT)
    /\ analysisError = Null
    /\ ~isAnalyzing

====
